---- MODULE Spec2Model ----
(***************************************************************************)
(* A model of the streaming response pipeline of the financial agent:      *)
(*   - RateLimiter (src/src/utils/rate_limiter.py), a lock-protected       *)
(*     sliding-window limiter called from several threads;                 *)
(*   - stream_agent_response (src/src/agent/streaming.py), a worker thread *)
(*     that runs the agent's turn, filters thinking blocks and hands the   *)
(*     chunks to the calling thread through a queue.                       *)
(*                                                                         *)
(* Time is counted in ticks, TicksPerSecond ticks to the second.  The      *)
(* clock (time.time()) is read as non-decreasing and takes its values in   *)
(* Instants: a few instants at the start of a window and a few around its  *)
(* end.                                                                    *)
(***************************************************************************)
EXTENDS Integers, Sequences, FiniteSets, TLC

\* ------------------------------------------------------------------ bounds

\* clock resolution: ticks per second (finer than the 0.1 s of the message)
TicksPerSecond == 30
\* instants 0..EarlyTicks at the start of the window
EarlyTicks == 2
\* instants up to LateTicks ticks after the end of the window
LateTicks == 2

\* ------------------------------------------------ the limiter's parameters

\* RateLimiter(max_requests=2, window_seconds=1)
max_requests == 2
window_seconds == 1

window_ticks == window_seconds * TicksPerSecond

Instants == (0 .. EarlyTicks) \cup ((window_ticks - 1) .. (window_ticks + LateTicks))

Threads == {"t1", "t2", "t3", "t4"}
\* the threads that call the limiter's methods over and over
LoopThreads == {"t1", "t2"}
NoThread == "none"

VARIABLES
    now,                  \* time.time()
    timestamps,           \* RateLimiter._timestamps (deque, oldest first)
    lock,                 \* RateLimiter._lock: its holder, or NoThread
    pc,                   \* where each thread is
    current_time,         \* each thread's local current_time
    last,                 \* what the last step did (observation)
    pending,              \* the rejections not yet followed by an admission
                          \* or a reset (observation)
    admitLog,             \* the times of the latest admissions (observation)
    sinceReset,           \* admissions since the last reset_time (observation)
    horizon,              \* the last instant the clock reaches in this run
    successful_requests,  \* the test's list of admitted callers
    failed_requests       \* the test's list of rejected callers

limiterVars == <<now, timestamps, lock, pc, current_time, last, pending,
                 admitLog, sinceReset, horizon, successful_requests,
                 failed_requests>>


VARIABLES
    full_response,        \* _async_stream: the chunks received so far
    agent_response,       \* logfire.info(agent_response=filtered_text)
    in_thinking_block,    \* _async_stream: inside a thinking block
    thinking_buffer,      \* _async_stream: the chunks held back
    chunk_queue,          \* the queue from the worker to the caller
    exception_holder,     \* the exceptions run_async_stream kept
    wpc,                  \* where the worker thread is
    cpc,                  \* where the calling thread is
    raised,               \* what the producer raised, if it did
    delivered,            \* the chunks yielded to the caller so far
    telemetry             \* the logfire events of the turn

streamVars == <<full_response, agent_response, in_thinking_block,
               thinking_buffer, chunk_queue, exception_holder, wpc, cpc,
               raised, delivered, telemetry>>

vars == <<limiterVars, streamVars>>

\* ----------------------------------------------------------------- helpers

Max(a, b) == IF a >= b THEN a ELSE b
Min(a, b) == IF a <= b THEN a ELSE b

IsSorted(s) == \A i \in 1 .. Len(s) - 1 : s[i] <= s[i + 1]

\* the last n elements of s
LastN(s, n) == SubSeq(s, Len(s) - Min(n, Len(s)) + 1, Len(s))

\* ------------------------------------------------------------- RateLimiter

\* _remove_expired_timestamps: popleft while the oldest is <= the cutoff
RECURSIVE _remove_expired_timestamps(_, _)
\* (variant: pop() in place of popleft(), the newest entry removed)
RemovePopsNewest(ts, cur) ==
    IF ts # <<>> /\ ts[1] <= cur - window_ticks
    THEN _remove_expired_timestamps(SubSeq(ts, 1, Len(ts) - 1), cur)
    ELSE ts
\* (variant: the cutoff compared with <, an entry aged exactly the window kept)
RemoveKeepsBoundary(ts, cur) ==
    IF ts # <<>> /\ ts[1] < cur - window_ticks
    THEN _remove_expired_timestamps(Tail(ts), cur)
    ELSE ts
_remove_expired_timestamps(ts, cur) ==
    IF ts # <<>> /\ ts[1] <= cur - window_ticks
    THEN _remove_expired_timestamps(Tail(ts), cur)
    ELSE ts

\* len(self._timestamps) >= self.max_requests
\* (variant: > in place of >=)
LimitOffByOne(ts) == Len(ts) > max_requests
LimitReached(ts) == Len(ts) >= max_requests

\* wait_time = max(0.0, oldest_timestamp + window_seconds - current_time), in ticks
wait_time(ts, cur) == Max(0, ts[1] + window_ticks - cur)

\* f"{wait_time:.1f}": the wait in tenths of a second, rounded to the nearest
\* tenth (no tick count is half-way between two tenths at these resolutions,
\* so the rounding of ties never shows)
\* (variant: the digits after the first decimal dropped)
FormatTruncates(w) == (10 * w) \div TicksPerSecond
FormatTenths(w) == (20 * w + TicksPerSecond) \div (2 * TicksPerSecond)

\* with self._lock: (acquirable when no thread holds it)
\* (variant: no mutual exclusion)
LockIgnored(l) == TRUE
LockFree(l) == l = NoThread

\* the ledger check_and_record leaves: the expired entries removed, and
\* current_time appended unless the limit is reached
\* (variant: the append not guarded by the limit test)
RecordsAlways(ts, cur) ==
    Append(_remove_expired_timestamps(ts, cur), cur)
check_and_record(ts, cur) ==
    LET kept == _remove_expired_timestamps(ts, cur)
    IN  IF LimitReached(kept) THEN kept ELSE Append(kept, cur)

\* whether check_and_record raises RateLimitExceededError
Rejects(ts, cur) == LimitReached(_remove_expired_timestamps(ts, cur))

\* get_remaining_requests: max(0, max_requests - len(_timestamps))
\* (variant: the expired entries not removed before counting)
RemainingCountsAll(ts, cur) ==
    Max(0, max_requests - Len(ts))
get_remaining_requests(ts, cur) ==
    Max(0, max_requests - Len(_remove_expired_timestamps(ts, cur)))

\* reset_time: self._timestamps.clear()
\* (variant: popleft() in place of clear())
ResetDropsOldest(ts) == IF ts = <<>> THEN ts ELSE Tail(ts)
reset_time(ts) == <<>>

\* ------------------------------------------------------------ observation

\* no rejection is pending
NoRejection == [open |-> FALSE, hinted |-> 0, due |-> 0]

\* a call rejected at time cur with the wait w (in ticks), reported as the
\* hint h (in tenths of a second), joins the pending rejections p: hinted is
\* the earliest of the times at which a hint lets its caller retry (in tenths
\* of a tick), due the time the computed wait ends
Rejected(p, cur, w, h) ==
    LET told == 10 * cur + h * TicksPerSecond
    IN  [open |-> TRUE,
         hinted |-> IF p.open THEN Min(p.hinted, told) ELSE told,
         due |-> cur + w]

NoEvent == [op |-> "none", by |-> NoThread, at |-> 0, result |-> "none",
            wait |-> 0, hint |-> 0, value |-> 0, raw |-> 0, before |-> <<>>,
            told |-> NoRejection, ticker |-> <<>>]

Event(o, t, cur, res, before) ==
    [NoEvent EXCEPT !.op = o, !.by = t, !.at = cur, !.result = res,
                    !.before = before]

\* the latest max_requests + 1 admissions
Logged(log, cur) == LastN(Append(log, cur), max_requests + 1)

\* --------------------------------------------------------------- the state

InitLimiter ==
    /\ now = 0
    /\ timestamps = <<>>
    /\ lock = NoThread
    /\ current_time = [t \in Threads |-> 0]
    /\ last = NoEvent
    /\ pending = NoRejection
    /\ admitLog = <<>>
    /\ sinceReset = 0
    /\ successful_requests = {}
    /\ failed_requests = {}

\* chunk_queue.put(None)
None == <<"None">>

NoError == [kind |-> "none", msg |-> <<>>]

\* the state of stream_agent_response when the worker thread starts
InitStreamVars ==
    /\ full_response = <<>>
    /\ agent_response = <<>>
    /\ in_thinking_block = FALSE
    /\ thinking_buffer = <<>>
    /\ chunk_queue = <<>>
    /\ exception_holder = <<>>
    /\ wpc = "run"
    /\ cpc = "get"
    /\ raised = NoError
    /\ delivered = <<>>
    /\ telemetry = <<>>

Init ==
    /\ InitLimiter
    /\ InitStreamVars
    /\ pc = [t \in Threads |-> IF t \in LoopThreads THEN "idle" ELSE "off"]
    /\ horizon = window_ticks + LateTicks

\* the clock advances to a later instant
Tick ==
    /\ \E i \in Instants : i > now /\ i <= horizon /\ now' = i
    /\ last' = Event("tick", NoThread, now', "none", timestamps)
    /\ UNCHANGED <<timestamps, lock, pc, current_time, pending, admitLog,
                   sinceReset, horizon, successful_requests, failed_requests>>
    /\ UNCHANGED streamVars

\* with self._lock: current_time = time.time()
Enter(t, from, to) ==
    /\ pc[t] = from
    /\ LockFree(lock)
    /\ lock' = t
    /\ current_time' = [current_time EXCEPT ![t] = now]
    /\ pc' = [pc EXCEPT ![t] = to]
    /\ last' = Event("enter", t, now, "none", timestamps)
    /\ UNCHANGED <<now, timestamps, pending, admitLog, sinceReset, horizon,
                   successful_requests, failed_requests>>
    /\ UNCHANGED streamVars

\* the rest of check_and_record, and the release of the lock
Leave(t, from, to) ==
    LET cur == current_time[t]
        kept == _remove_expired_timestamps(timestamps, cur)
    IN
    /\ pc[t] = from
    /\ timestamps' = check_and_record(timestamps, cur)
    /\ IF Rejects(timestamps, cur)
       THEN /\ last' = [Event("check_and_record", t, cur, "rejected", timestamps)
                            EXCEPT !.wait = wait_time(kept, cur),
                                   !.hint = FormatTenths(wait_time(kept, cur)),
                                   !.told = pending]
            /\ pending' = Rejected(pending, cur, wait_time(kept, cur),
                                   FormatTenths(wait_time(kept, cur)))
            /\ UNCHANGED <<admitLog, sinceReset>>
       ELSE /\ last' = [Event("check_and_record", t, cur, "ok", timestamps)
                            EXCEPT !.told = pending]
            /\ pending' = NoRejection
            /\ admitLog' = Logged(admitLog, cur)
            /\ sinceReset' = Min(sinceReset + 1, max_requests + 1)
    /\ lock' = NoThread
    /\ pc' = [pc EXCEPT ![t] = to]
    /\ UNCHANGED <<now, current_time, horizon>>
    /\ UNCHANGED streamVars

CheckAndRecordEnter(t) == Enter(t, "idle", "check_and_record")

CheckAndRecordLeave(t) ==
    /\ Leave(t, "check_and_record", "idle")
    /\ UNCHANGED <<successful_requests, failed_requests>>

GetRemainingEnter(t) == Enter(t, "idle", "get_remaining_requests")

GetRemainingLeave(t) ==
    LET cur == current_time[t]
    IN
    /\ pc[t] = "get_remaining_requests"
    /\ timestamps' = _remove_expired_timestamps(timestamps, cur)
    /\ last' = [Event("get_remaining_requests", t, cur, "ok", timestamps)
                   EXCEPT !.value = get_remaining_requests(timestamps, cur),
                          !.raw = max_requests - Len(timestamps')]
    /\ lock' = NoThread
    /\ pc' = [pc EXCEPT ![t] = "idle"]
    /\ UNCHANGED <<now, current_time, pending, admitLog, sinceReset, horizon,
                   successful_requests, failed_requests>>
    /\ UNCHANGED streamVars

ResetTime(t) ==
    /\ pc[t] = "idle"
    /\ LockFree(lock)
    /\ timestamps' = reset_time(timestamps)
    /\ sinceReset' = 0
    /\ pending' = NoRejection
    /\ last' = Event("reset_time", t, now, "ok", timestamps)
    /\ UNCHANGED <<now, lock, pc, current_time, admitLog, horizon,
                   successful_requests, failed_requests>>
    /\ UNCHANGED streamVars

Next ==
    \/ Tick
    \/ \E t \in Threads : CheckAndRecordEnter(t)
    \/ \E t \in Threads : CheckAndRecordLeave(t)
    \/ \E t \in Threads : GetRemainingEnter(t)
    \/ \E t \in Threads : GetRemainingLeave(t)
    \/ \E t \in Threads : ResetTime(t)

Spec == Init /\ [][Next]_vars

\* ------------------------------------------- the concurrent-callers test

\* test_concurrent_requests_thread_safe: each caller thread runs make_request
\* once, all within one window, on a limiter with an empty ledger
InitBurst ==
    /\ InitLimiter
    /\ InitStreamVars
    /\ \E callers \in SUBSET Threads :
           pc = [t \in Threads |-> IF t \in callers THEN "start" ELSE "off"]
    /\ horizon = window_ticks - 1

\* make_request: try: limiter.check_and_record()
MakeRequestEnter(t) == Enter(t, "start", "make_request")

\* successful_requests.append(id) / except: failed_requests.append(id)
MakeRequestLeave(t) ==
    /\ Leave(t, "make_request", "done")
    /\ IF Rejects(timestamps, current_time[t])
       THEN /\ failed_requests' = failed_requests \cup {t}
            /\ UNCHANGED successful_requests
       ELSE /\ successful_requests' = successful_requests \cup {t}
            /\ UNCHANGED failed_requests

NextBurst ==
    \/ Tick
    \/ \E t \in Threads : MakeRequestEnter(t)
    \/ \E t \in Threads : MakeRequestLeave(t)

SpecBurst == InitBurst /\ [][NextBurst]_vars

\* ======================================================= streaming.py: text

\* A text is a sequence of characters (strings of length one).

RECURSIVE Concat(_)
\* ''.join(chunks)
Concat(chunks) ==
    IF chunks = <<>> THEN <<>> ELSE Head(chunks) \o Concat(Tail(chunks))

RECURSIVE SumLen(_)
\* sum(len(chunk) for chunk in chunks)
SumLen(chunks) ==
    IF chunks = <<>> THEN 0 ELSE Len(Head(chunks)) + SumLen(Tail(chunks))

\* text[n:]
Drop(text, n) == SubSeq(text, n + 1, Len(text))

UpperCase == {"A", "B", "C", "D", "E", "F", "G", "H", "I", "J", "K", "L", "M", "N", "O", "P", "Q", "R", "S", "T", "U", "V", "W", "X", "Y", "Z"}
LowerOf == ("A" :> "a") @@ ("B" :> "b") @@ ("C" :> "c") @@ ("D" :> "d") @@ ("E" :> "e") @@ ("F" :> "f") @@ ("G" :> "g") @@ ("H" :> "h") @@ ("I" :> "i") @@ ("J" :> "j") @@ ("K" :> "k") @@ ("L" :> "l") @@ ("M" :> "m") @@ ("N" :> "n") @@ ("O" :> "o") @@ ("P" :> "p") @@ ("Q" :> "q") @@ ("R" :> "r") @@ ("S" :> "s") @@ ("T" :> "t") @@ ("U" :> "u") @@ ("V" :> "v") @@ ("W" :> "w") @@ ("X" :> "x") @@ ("Y" :> "y") @@ ("Z" :> "z")

\* re.IGNORECASE: letters compare by their lower case
Fold(c) == IF c \in UpperCase THEN LowerOf[c] ELSE c

\* the literal pat matches text at position i (ci: ignoring case)
MatchesAt(text, i, pat, ci) ==
    /\ i >= 1
    /\ i + Len(pat) - 1 <= Len(text)
    /\ \A k \in 1 .. Len(pat) :
          IF ci THEN Fold(text[i + k - 1]) = Fold(pat[k])
                ELSE text[i + k - 1] = pat[k]

\* the positions >= from at which one of pats matches
MatchPositions(text, from, pats, ci) ==
    {i \in from .. Len(text) : \E p \in pats : MatchesAt(text, i, p, ci)}

SetMin(S) == CHOOSE x \in S : \A y \in S : x <= y
SetMax(S) == CHOOSE x \in S : \A y \in S : x >= y

\* re.search(pats, text)
Search(text, pats, ci) ==
    \E i \in 1 .. Len(text) : \E p \in pats : MatchesAt(text, i, p, ci)

\* the marker vocabularies
ThinkOpen == <<"<", "t", "h", "i", "n", "k", ">">>
ThinkClose == <<"<", "/", "t", "h", "i", "n", "k", ">">>
ThinkingOpen == <<"<", "t", "h", "i", "n", "k", "i", "n", "g", ">">>
ThinkingClose == <<"<", "/", "t", "h", "i", "n", "k", "i", "n", "g", ">">>
PipeOpen == <<"<", "|", "t", "h", "i", "n", "k", "i", "n", "g", "|", ">">>
PipeCloseSlash == <<"<", "/", "|", "e", "n", "d", "_", "t", "h", "i", "n", "k", "i", "n", "g", "|", ">">>
PipeClosePlain == <<"<", "|", "e", "n", "d", "_", "t", "h", "i", "n", "k", "i", "n", "g", "|", ">">>
EndCloseSlash == <<"<", "/", "e", "n", "d", "_", "t", "h", "i", "n", "k", "i", "n", "g", "|", ">">>
EndClosePlain == <<"<", "e", "n", "d", "_", "t", "h", "i", "n", "k", "i", "n", "g", "|", ">">>

\* r'<think(?:ing)?>|<[|]thinking[|]>' (re.IGNORECASE)
OnlineOpenMarkers == {ThinkOpen, ThinkingOpen, PipeOpen}
\* r'</think(?:ing)?>|</?[|]?end_thinking[|]>' (re.IGNORECASE)
OnlineCloseMarkers ==
    {ThinkClose, ThinkingClose, PipeCloseSlash, PipeClosePlain,
     EndCloseSlash, EndClosePlain}

RECURSIVE RemoveRegions(_, _, _, _)
\* re.sub(open .*? close, '', text, flags=re.DOTALL): every leftmost region
\* from an open marker to the first close marker after it is removed
RemoveRegions(text, opens, closes, ci) ==
    LET os == MatchPositions(text, 1, opens, ci)
    IN  IF os = {} THEN text
        ELSE LET o == SetMin(os)
                 olen == SetMax({Len(p) : p \in {q \in opens : MatchesAt(text, o, q, ci)}})
                 cs == MatchPositions(text, o + olen, closes, ci)
             IN  IF cs = {} THEN text
                 ELSE LET c == SetMin(cs)
                          clen == SetMax({Len(p) : p \in {q \in closes : MatchesAt(text, c, q, ci)}})
                      IN  SubSeq(text, 1, o - 1)
                            \o RemoveRegions(Drop(text, c + clen - 1), opens, closes, ci)

\* (?:think|reasoning|internal thought):
ThinkLabels == {<<"t", "h", "i", "n", "k", ":">>, <<"r", "e", "a", "s", "o", "n", "i", "n", "g", ":">>, <<"i", "n", "t", "e", "r", "n", "a", "l", " ", "t", "h", "o", "u", "g", "h", "t", ":">>}
\* (?:answer|final answer|response):
AnswerLabels == {<<"a", "n", "s", "w", "e", "r", ":">>, <<"f", "i", "n", "a", "l", " ", "a", "n", "s", "w", "e", "r", ":">>, <<"r", "e", "s", "p", "o", "n", "s", "e", ":">>}

\* re.sub(r'(?i)^.*?(?:think|...):.*?(?=(?:answer|...):)', '', text): the text
\* from its start to the first answer label after the first think label
RemoveThinkSection(text) ==
    LET ls == MatchPositions(text, 1, ThinkLabels, TRUE)
    IN  IF ls = {} THEN text
        ELSE LET l == SetMin(ls)
                 llen == SetMin({Len(p) : p \in {q \in ThinkLabels : MatchesAt(text, l, q, TRUE)}})
                 as == MatchPositions(text, l + llen, AnswerLabels, TRUE)
             IN  IF as = {} THEN text ELSE Drop(text, SetMin(as) - 1)

\* str.strip()
WhiteSpace == {" ", "\n", "\t", "\r"}
RECURSIVE LStrip(_)
LStrip(text) ==
    IF text # <<>> /\ Head(text) \in WhiteSpace THEN LStrip(Tail(text)) ELSE text
RECURSIVE RStrip(_)
RStrip(text) ==
    IF text # <<>> /\ text[Len(text)] \in WhiteSpace
    THEN RStrip(SubSeq(text, 1, Len(text) - 1)) ELSE text
Strip(text) == RStrip(LStrip(text))

\* filter_thinking_tokens
\* (variant: no text.strip() at the end)
FilterUnstripped(text) ==
    LET t1 == RemoveRegions(text, {ThinkOpen}, {ThinkClose}, TRUE)
        t2 == RemoveRegions(t1, {ThinkingOpen}, {ThinkingClose}, TRUE)
        t3 == RemoveRegions(t2, {PipeOpen}, {PipeCloseSlash, PipeClosePlain}, FALSE)
        t4 == RemoveRegions(t3, {PipeOpen},
                  {PipeCloseSlash, PipeClosePlain, EndCloseSlash, EndClosePlain}, FALSE)
    IN  RemoveThinkSection(t4)
filter_thinking_tokens(text) ==
    LET t1 == RemoveRegions(text, {ThinkOpen}, {ThinkClose}, TRUE)
        t2 == RemoveRegions(t1, {ThinkingOpen}, {ThinkingClose}, TRUE)
        t3 == RemoveRegions(t2, {PipeOpen}, {PipeCloseSlash, PipeClosePlain}, FALSE)
        t4 == RemoveRegions(t3, {PipeOpen},
                  {PipeCloseSlash, PipeClosePlain, EndCloseSlash, EndClosePlain}, FALSE)
        t5 == RemoveThinkSection(t4)
    IN  Strip(t5)

\* ===================================================== stream_agent_response

\* the most chunks the producer emits in a turn
MaxChunks == 3

\* full_response[-10:]
LookbackChunks == 10

\* the chunks the producer may emit
ChunkPool ==
    {<<"H", "i">>,
     <<" ">>,
     <<>>,
     <<"<", "t", "h", "i", "n", "k", ">">>,
     <<"<", "t", "h", "i">>,
     <<"n", "k", ">">>,
     <<"<", "/", "t", "h", "i", "n", "k", ">">>,
     <<"n", "k", ">", "X", "<", "/", "t", "h", "i", "n", "k", ">", "Y">>}

\* the messages an exception may carry
Messages == {<<"m", "1">>, <<"m", "2">>}

\* the classes of what the producer may raise: ToolExecutionError; the
\* RateLimitExceededError of src.utils.exceptions and the one of
\* src.utils.rate_limiter; any other Exception; a BaseException that is not
\* an Exception (asyncio.CancelledError, KeyboardInterrupt, SystemExit)
ExceptionKinds ==
    {"ToolExecutionError", "RateLimitExceededError",
     "rate_limiter.RateLimitExceededError", "Exception"}
ErrorKinds == ExceptionKinds \cup {"BaseException"}

ErrorPrefix == <<"\n", "\n", "E", "r", "r", "o", "r", ":", " ">>
StreamingErrorPrefix == <<"\n", "\n", "S", "t", "r", "e", "a", "m", "i", "n", "g", " ", "e", "r", "r", "o", "r", ":", " ">>

\* combined_recent = ''.join(full_response[-10:])
combined_recent(chunks) == Concat(LastN(chunks, LookbackChunks))

\* the loop body's first test: an open marker in the recent chunks
SeesOpen(chunks) == Search(combined_recent(chunks), OnlineOpenMarkers, TRUE)
\* the loop body's second test: a close marker in the recent chunks
SeesClose(chunks) == Search(combined_recent(chunks), OnlineCloseMarkers, TRUE)

\* the final pass: the text yielded after the producer has completed, <<>>
\* when nothing is
\* (variant: streamed_length left out, the filtered text yielded whole)
RemainingFromStart(chunks, held) ==
    LET filtered_text == filter_thinking_tokens(Concat(chunks))
    IN  IF Strip(filtered_text) # <<>> THEN filtered_text ELSE <<>>
remaining(chunks, held) ==
    LET filtered_text == filter_thinking_tokens(Concat(chunks))
        streamed_length == SumLen(chunks) - SumLen(held)
    IN  IF Len(filtered_text) > streamed_length
           /\ Strip(Drop(filtered_text, streamed_length)) # <<>>
        THEN Drop(filtered_text, streamed_length)
        ELSE <<>>

\* except ToolExecutionError as e: / except Exception as e: the error chunk
\* (variant: the catch-all handler shows a fixed text in place of str(e))
ErrorGeneric(kind, msg) ==
    IF kind = "ToolExecutionError" THEN ErrorPrefix \o msg
    ELSE StreamingErrorPrefix
ErrorShown(kind, msg) ==
    IF kind = "ToolExecutionError" THEN ErrorPrefix \o msg
    ELSE StreamingErrorPrefix \o msg

\* the name of the logfire.error event
ErrorEvent(kind) ==
    IF kind = "ToolExecutionError" THEN "tool_execution_error"
    ELSE "streaming_error"

\* the handlers' yield error_msg, put on the queue by _stream_to_queue
\* (variant: the handler logs and yields nothing)
ErrorSwallowed(queue, kind, msg) == queue
PutError(queue, kind, msg) == Append(queue, ErrorShown(kind, msg))

\* yield text_chunk, put on the queue by _stream_to_queue
PutChunk(queue, chunk) == Append(queue, chunk)

\* chunk_queue = queue.Queue(): maxsize is 0, a queue with no upper bound
maxsize == 0

\* Queue.put blocks while maxsize > 0 and the queue holds maxsize items
PutBlocks(queue) == maxsize > 0 /\ Len(queue) >= maxsize

\* logfire.info("conversation_completed", ...)
logfire_info(events) == Append(events, "conversation_completed")

\* logfire.error("tool_execution_error" / "streaming_error", ...)
\* (variant: the handler yields the error chunk and logs nothing)
ErrorNotLogged(events, kind) == events
logfire_error(events, kind) == Append(events, ErrorEvent(kind))

\* thread.join(timeout=1.0) returns when the worker thread has finished, or
\* when the timeout has elapsed
\* (variant: thread.join(), no timeout)
JoinWithoutTimeout(worker, elapsed) == worker \in {"exited", "dead"}
JoinReturns(worker, elapsed) == worker \in {"exited", "dead"} \/ elapsed

\* except Exception as e: exception_holder.append(e), in run_async_stream:
\* what exception_holder holds once the producer has raised.  The handlers of
\* _async_stream let no Exception out of _stream_to_queue, and a BaseException
\* that is not an Exception passes this clause as it passed them.
\* (variant: the handlers re-raise what they caught after the error chunk)
HolderKeepsError(holder, kind, msg) ==
    Append(holder, [kind |-> kind, msg |-> msg])
KeptErrors(holder, kind, msg) == holder

\* stream_agent_response_async: what the async generator yields, consumed to
\* its end, when the producer emits chunks and then completes (err is
\* NoError) or raises err: each chunk as it arrives, then the handler's error
\* chunk for an Exception
stream_agent_response_async(chunks, err) ==
    IF err.kind \in ExceptionKinds
    THEN Append(chunks, ErrorShown(err.kind, err.msg))
    ELSE chunks

\* the limiter is not used by the turns of SpecStream
InitStream ==
    /\ InitLimiter
    /\ pc = [t \in Threads |-> "off"]
    /\ horizon = 0
    /\ InitStreamVars

\* async for text_chunk in result.stream_text(delta=True): one chunk goes
\* through the loop body
ProducerChunk(c) ==
    LET chunks == Append(full_response, c)
    IN
    /\ wpc = "run"
    /\ Len(full_response) < MaxChunks
    /\ full_response' = chunks
    /\ IF SeesOpen(chunks)
       THEN /\ in_thinking_block' = TRUE
            /\ thinking_buffer' = Append(thinking_buffer, c)
            /\ UNCHANGED chunk_queue
       ELSE IF in_thinking_block
       THEN /\ IF SeesClose(chunks)
               THEN /\ in_thinking_block' = FALSE
                    /\ thinking_buffer' = <<>>
               ELSE /\ thinking_buffer' = Append(thinking_buffer, c)
                    /\ UNCHANGED in_thinking_block
            /\ UNCHANGED chunk_queue
       ELSE /\ ~PutBlocks(chunk_queue)
            /\ chunk_queue' = PutChunk(chunk_queue, c)
            /\ UNCHANGED <<in_thinking_block, thinking_buffer>>
    /\ UNCHANGED <<agent_response, exception_holder, wpc, cpc, raised,
                   delivered, telemetry>>
    /\ UNCHANGED limiterVars

\* the producer's stream ends: the final filtering, the remaining text, the
\* conversation_completed event
ProducerComplete ==
    LET rest == remaining(full_response, thinking_buffer)
    IN
    /\ wpc = "run"
    /\ agent_response' = filter_thinking_tokens(Concat(full_response))
    /\ rest # <<>> => ~PutBlocks(chunk_queue)
    /\ chunk_queue' = IF rest # <<>> THEN PutChunk(chunk_queue, rest)
                      ELSE chunk_queue
    /\ telemetry' = logfire_info(telemetry)
    /\ wpc' = "sentinel"
    /\ UNCHANGED <<full_response, in_thinking_block, thinking_buffer,
                   exception_holder, cpc, raised, delivered>>
    /\ UNCHANGED limiterVars

\* the producer raises: an Exception is caught by one of the two handlers,
\* which logs it and yields the error chunk; any other BaseException passes
\* them and run_async_stream's handler, and ends the worker thread
Raise(kind, msg) ==
    /\ wpc = "run"
    /\ raised' = [kind |-> kind, msg |-> msg]
    /\ IF kind \in ExceptionKinds
       THEN /\ ~PutBlocks(chunk_queue)
            /\ chunk_queue' = PutError(chunk_queue, kind, msg)
            /\ telemetry' = logfire_error(telemetry, kind)
            /\ wpc' = "sentinel"
       ELSE /\ wpc' = "dead"
            /\ UNCHANGED <<chunk_queue, telemetry>>
    /\ exception_holder' = KeptErrors(exception_holder, kind, msg)
    /\ UNCHANGED <<full_response, agent_response, in_thinking_block,
                   thinking_buffer, cpc, delivered>>

\* run_stream or stream_text raises
ProducerRaise(kind, msg) ==
    /\ Raise(kind, msg)
    /\ UNCHANGED limiterVars

\* chunk_queue.put(None)  # Sentinel to indicate completion
WorkerSentinel ==
    /\ wpc = "sentinel"
    /\ ~PutBlocks(chunk_queue)
    /\ chunk_queue' = Append(chunk_queue, None)
    /\ wpc' = "closing"
    /\ UNCHANGED <<full_response, agent_response, in_thinking_block,
                   thinking_buffer, exception_holder, cpc, raised, delivered,
                   telemetry>>
    /\ UNCHANGED limiterVars

\* asyncio.run closes its event loop and run_async_stream returns: the worker
\* thread has finished
WorkerExit ==
    /\ wpc = "closing"
    /\ wpc' = "exited"
    /\ UNCHANGED <<full_response, agent_response, in_thinking_block,
                   thinking_buffer, chunk_queue, exception_holder, cpc, raised,
                   delivered, telemetry>>
    /\ UNCHANGED limiterVars

\* chunk = chunk_queue.get(); if chunk is None: break; yield chunk
CallerGet ==
    /\ cpc = "get"
    /\ chunk_queue # <<>>
    /\ chunk_queue' = Tail(chunk_queue)
    /\ IF Head(chunk_queue) = None
       THEN /\ cpc' = "join"
            /\ UNCHANGED delivered
       ELSE /\ delivered' = Append(delivered, Head(chunk_queue))
            /\ UNCHANGED cpc
    /\ UNCHANGED <<full_response, agent_response, in_thinking_block,
                   thinking_buffer, exception_holder, wpc, raised, telemetry>>
    /\ UNCHANGED limiterVars

\* the caller stops iterating (generator.close(), or the generator is
\* dropped) while the generator is suspended at yield chunk: GeneratorExit is
\* raised there and nothing after the loop runs
CallerStop ==
    /\ cpc = "get"
    /\ delivered # <<>>
    /\ cpc' = "closed"
    /\ UNCHANGED <<full_response, agent_response, in_thinking_block,
                   thinking_buffer, chunk_queue, exception_holder, wpc, raised,
                   delivered, telemetry>>
    /\ UNCHANGED limiterVars

\* thread.join(timeout=1.0); if exception_holder: raise exception_holder[0]
CallerJoin ==
    /\ cpc = "join"
    /\ \E elapsed \in BOOLEAN : JoinReturns(wpc, elapsed)
    /\ cpc' = IF exception_holder # <<>> THEN "raised" ELSE "ended"
    /\ UNCHANGED <<full_response, agent_response, in_thinking_block,
                   thinking_buffer, chunk_queue, exception_holder, wpc, raised,
                   delivered, telemetry>>
    /\ UNCHANGED limiterVars

NextStream ==
    \/ \E c \in ChunkPool : ProducerChunk(c)
    \/ ProducerComplete
    \/ \E k \in ErrorKinds, m \in Messages : ProducerRaise(k, m)
    \/ WorkerSentinel
    \/ WorkerExit
    \/ CallerGet
    \/ CallerStop
    \/ CallerJoin

SpecStream == InitStream /\ [][NextStream]_vars

\* ================================== a turn whose chunks are markers and text

\* <|THINKING|>: the open marker of the pipe vocabulary in capitals
PipeOpenCaps == <<"<", "|", "T", "H", "I", "N", "K", "I", "N", "G", "|", ">">>

\* the chunks of these turns: open and close markers of two vocabularies, the
\* head and the tail of a split open marker, the content of a thinking
\* region ("X"), a piece of the answer ("Y")
MarkerChunks ==
    {ThinkOpen, ThinkClose, PipeOpen, PipeOpenCaps, PipeClosePlain,
     <<"<", "t", "h", "i">>, <<"n", "k", ">">>, <<"X">>, <<"Y">>}

\* the producer emits marker chunks and text chunks, then completes
NextMarkers ==
    \/ \E c \in MarkerChunks : ProducerChunk(c)
    \/ ProducerComplete
    \/ WorkerSentinel
    \/ WorkerExit
    \/ CallerGet
    \/ CallerJoin

SpecMarkers == InitStream /\ [][NextMarkers]_vars

\* ============================================ get_stock_price during a turn

Digit == <<"0", "1", "2", "3", "4", "5", "6", "7", "8", "9">>

RECURSIVE NatText(_)
\* f"{n}" of a natural number
NatText(n) ==
    IF n < 10 THEN <<Digit[n + 1]>>
    ELSE NatText(n \div 10) \o <<Digit[(n % 10) + 1]>>

\* f"{wait_time:.1f}" of a wait of hint tenths of a second
TenthsText(hint) == NatText(hint \div 10) \o <<".">> \o <<Digit[(hint % 10) + 1]>>

\* the message of the limiter's RateLimitExceededError
RateLimitText(hint) ==
    <<"R", "a", "t", "e", " ", "l", "i", "m", "i", "t", " ", "e", "x", "c", "e", "e", "d", "e", "d", ".", " ", "M", "a", "x", "i", "m", "u", "m", " ">>
    \o NatText(max_requests)
    \o <<" ", "r", "e", "q", "u", "e", "s", "t", "s", " ", "p", "e", "r", " ">>
    \o NatText(window_seconds)
    \o <<" ", "s", "e", "c", "o", "n", "d", "s", ".", " ", "P", "l", "e", "a", "s", "e", " ", "w", "a", "i", "t", " ">>
    \o TenthsText(hint)
    \o <<" ", "s", "e", "c", "o", "n", "d", "s", " ", "b", "e", "f", "o", "r", "e", " ", "r", "e", "t", "r", "y", "i", "n", "g", ".">>

\* the class check_and_record raises: the RateLimitExceededError that
\* rate_limiter.py defines, a subclass of Exception and of nothing else;
\* get_stock_price calls check_and_record outside its try and lets it pass
LimiterError == "rate_limiter.RateLimitExceededError"

\* the tickers of TestGetStockPriceInvalidInput that are strings: whitespace
\* only, and longer than 10 characters
InvalidTickers ==
    {<<" ">>,
     <<"V", "E", "R", "Y", "L", "O", "N", "G", "T", "I", "C", "K", "E", "R", "1", "2", "3">>}

\* the tickers the agent may pass
Tickers == {<<"A", "A", "P", "L">>} \cup InvalidTickers

\* the ticker passes the format checks of get_stock_price
\* (variant: no format check before the limiter is consulted)
AnyTicker(ticker) == TRUE
ValidTicker(ticker) == Strip(ticker) # <<>> /\ Len(Strip(ticker)) <= 10

InvalidTickerText == <<"I", "n", "v", "a", "l", "i", "d", " ", "t", "i", "c", "k", "e", "r", " ", "f", "o", "r", "m", "a", "t">>
ApiErrorText == <<"Y", "F", "i", "n", "a", "n", "c", "e", " ", "A", "P", "I", " ", "e", "r", "r", "o", "r">>

\* the agent calls get_stock_price(ticker) during the turn; fetched: whether
\* the YFinance lookup gives a price.  The tool's limiter is the limiter of
\* this model, with its parameters.
GetStockPrice(ticker, fetched) ==
    LET kept == _remove_expired_timestamps(timestamps, now)
    IN
    /\ wpc = "run"
    /\ LockFree(lock)
    /\ IF ~ValidTicker(ticker)
       THEN /\ Raise("ToolExecutionError", InvalidTickerText)
            /\ last' = [Event("get_stock_price", NoThread, now, "invalid",
                              timestamps)
                            EXCEPT !.ticker = ticker]
            /\ UNCHANGED <<now, timestamps, lock, pc, current_time, pending,
                           admitLog, sinceReset, horizon, successful_requests,
                           failed_requests>>
       ELSE /\ timestamps' = check_and_record(timestamps, now)
            /\ UNCHANGED <<now, lock, pc, current_time, horizon,
                           successful_requests, failed_requests>>
            /\ IF Rejects(timestamps, now)
               THEN /\ last' = [Event("get_stock_price", NoThread, now,
                                      "rejected", timestamps)
                                    EXCEPT !.wait = wait_time(kept, now),
                                           !.hint = FormatTenths(wait_time(kept, now)),
                                           !.ticker = ticker]
                    /\ pending' = Rejected(pending, now, wait_time(kept, now),
                                           FormatTenths(wait_time(kept, now)))
                    /\ UNCHANGED <<admitLog, sinceReset>>
                    /\ Raise(LimiterError,
                             RateLimitText(FormatTenths(wait_time(kept, now))))
               ELSE /\ last' = [Event("get_stock_price", NoThread, now, "ok",
                                      timestamps)
                                    EXCEPT !.ticker = ticker]
                    /\ pending' = NoRejection
                    /\ admitLog' = Logged(admitLog, now)
                    /\ sinceReset' = Min(sinceReset + 1, max_requests + 1)
                    /\ IF fetched THEN UNCHANGED streamVars
                       ELSE Raise("ToolExecutionError", ApiErrorText)

\* a turn whose agent looks prices up and answers in plain chunks
NextPrice ==
    \/ \E ticker \in Tickers, fetched \in BOOLEAN : GetStockPrice(ticker, fetched)
    \/ ProducerChunk(<<"H", "i">>)
    \/ ProducerComplete
    \/ WorkerSentinel
    \/ WorkerExit
    \/ CallerGet
    \/ CallerStop
    \/ CallerJoin

SpecPrice == InitStream /\ [][NextPrice]_vars

\* ================================ get_stock_price called by concurrent turns

\* where get_stock_price goes after _rate_limiter.check_and_record(): the
\* RateLimitExceededError leaves the function before yf.Ticker is reached
\* (variant: the error caught and the lookup made all the same)
CheckIgnored(rejected) == "fetch"
AfterCheck(rejected) == IF rejected THEN "rejected" ELSE "fetch"

\* the worker threads of concurrent turns, each about to call get_stock_price
\* once with a well-formed ticker; _rate_limiter is the one limiter of the
\* module
InitLookup ==
    /\ InitLimiter
    /\ InitStreamVars
    /\ pc = [t \in Threads |-> "start"]
    /\ horizon = window_ticks + LateTicks

\* _rate_limiter.check_and_record(): the lock is taken, the clock is read
LookupEnter(t) == Enter(t, "start", "lookup")

\* the rest of check_and_record: the call returns and get_stock_price goes
\* on to the lookup, or the call raises and get_stock_price is left
LookupLeave(t) ==
    LET rejected == Rejects(timestamps, current_time[t])
    IN
    /\ Leave(t, "lookup", AfterCheck(rejected))
    /\ IF rejected
       THEN /\ failed_requests' = failed_requests \cup {t}
            /\ UNCHANGED successful_requests
       ELSE /\ successful_requests' = successful_requests \cup {t}
            /\ UNCHANGED failed_requests

\* ticker_obj = yf.Ticker(ticker); info = ticker_obj.info: the lookup reaches
\* the price service
Fetch(t) ==
    /\ pc[t] = "fetch"
    /\ pc' = [pc EXCEPT ![t] = "fetched"]
    /\ last' = Event("yf.Ticker", t, now, "ok", timestamps)
    /\ UNCHANGED <<now, timestamps, lock, current_time, pending, admitLog,
                   sinceReset, horizon, successful_requests, failed_requests>>
    /\ UNCHANGED streamVars

NextLookup ==
    \/ Tick
    \/ \E t \in Threads : LookupEnter(t)
    \/ \E t \in Threads : LookupLeave(t)
    \/ \E t \in Threads : Fetch(t)

SpecLookup == InitLookup /\ [][NextLookup]_vars

\* ================================== filter_thinking_tokens called on a text

\* the pieces of text that hold no marker
PlainPieces == {<<"A">>, <<" ">>}

\* the marked regions, one or two of each vocabulary: an open marker, a
\* content that holds no marker, the matching close marker
MarkedRegions ==
    {<<"<", "t", "h", "i", "n", "k", ">", "x", "<", "/", "t", "h", "i", "n", "k", ">">>,
     <<"<", "T", "h", "i", "n", "k", ">", "\n", "x", "<", "/", "T", "H", "I", "N", "K", ">">>,
     <<"<", "t", "h", "i", "n", "k", "i", "n", "g", ">", "x", "<", "/", "t", "h", "i", "n", "k", "i", "n", "g", ">">>,
     <<"<", "|", "t", "h", "i", "n", "k", "i", "n", "g", "|", ">", "x", "<", "/", "|", "e", "n", "d", "_", "t", "h", "i", "n", "k", "i", "n", "g", "|", ">">>,
     <<"<", "|", "t", "h", "i", "n", "k", "i", "n", "g", "|", ">", "x", "<", "|", "e", "n", "d", "_", "t", "h", "i", "n", "k", "i", "n", "g", "|", ">">>,
     <<"<", "|", "t", "h", "i", "n", "k", "i", "n", "g", "|", ">", "x", "<", "e", "n", "d", "_", "t", "h", "i", "n", "k", "i", "n", "g", "|", ">">>}

\* the pieces that hold a part of a marked region: the head of an open
\* marker, and the rest of that marker with a content, a close marker and a
\* text after it
FragmentPieces ==
    {<<"<", "t", "h", "i">>,
     <<"n", "k", ">", "X", "<", "/", "t", "h", "i", "n", "k", ">", "Y">>}

\* the texts the function is called on, as their pieces: at most MaxChunks
\* pieces, plain, marked or fragments, in any order
PieceSeqs ==
    UNION {[1 .. n -> PlainPieces \cup MarkedRegions \cup FragmentPieces] :
              n \in 0 .. MaxChunks}

InitFilter ==
    /\ InitLimiter
    /\ pc = [t \in Threads |-> "off"]
    /\ horizon = 0
    /\ InitStreamVars

\* the text is chosen: full_response holds its pieces, as it holds the
\* producer's chunks in a turn
ChooseText(pieces) ==
    /\ wpc = "run"
    /\ full_response = <<>>
    /\ pieces # <<>>
    /\ full_response' = pieces
    /\ UNCHANGED <<agent_response, in_thinking_block, thinking_buffer,
                   chunk_queue, exception_holder, wpc, cpc, raised, delivered,
                   telemetry>>
    /\ UNCHANGED limiterVars

\* filtered_text = filter_thinking_tokens(''.join(full_response))
FilterCall ==
    /\ wpc = "run"
    /\ agent_response' = filter_thinking_tokens(Concat(full_response))
    /\ wpc' = "returned"
    /\ UNCHANGED <<full_response, in_thinking_block, thinking_buffer,
                   chunk_queue, exception_holder, cpc, raised, delivered,
                   telemetry>>
    /\ UNCHANGED limiterVars

\* filter_thinking_tokens(filtered_text): the function called on its own result
FilterAgain ==
    /\ wpc = "returned"
    /\ agent_response' = filter_thinking_tokens(agent_response)
    /\ wpc' = "refiltered"
    /\ UNCHANGED <<full_response, in_thinking_block, thinking_buffer,
                   chunk_queue, exception_holder, cpc, raised, delivered,
                   telemetry>>
    /\ UNCHANGED limiterVars

NextFilter ==
    \/ \E pieces \in PieceSeqs : ChooseText(pieces)
    \/ FilterCall
    \/ FilterAgain

SpecFilter == InitFilter /\ [][NextFilter]_vars

\* =============================================================== properties

\* the callers of the test, and those whose call has returned
Callers == {t \in Threads : pc[t] # "off"}
Returned == {t \in Threads : pc[t] = "done"}

\* the entries of ts that have not expired at time cur
Unexpired(ts, cur) == {i \in DOMAIN ts : ts[i] > cur - window_ticks}

\* C1: of the K calls issued within one window on an empty ledger, in any
\* interleaving, exactly min(K, max_requests) return and exactly
\* max(0, K - max_requests) raise; this holds of the calls returned so far at
\* every moment, and so of all K once every caller is done.
C1_ExactlyMinSucceed ==
    LET K == Cardinality(Returned)
    IN  /\ Cardinality(successful_requests) = Min(K, max_requests)
        /\ Cardinality(failed_requests) = Max(0, K - max_requests)
        /\ successful_requests \cap failed_requests = {}

C1_Witness ==
    /\ Callers = Threads
    /\ Returned = Threads
    /\ Cardinality(failed_requests) = Cardinality(Threads) - max_requests
    /\ now > 0

\* the admissions since the last reset_time that fall in the trailing window
\* (now - window, now]
RecentAdmissions ==
    LET mine == LastN(admitLog, sinceReset)
    IN  {i \in DOMAIN mine : mine[i] > now - window_ticks}

\* the admissions, resets or not, that fall in the trailing window
WindowAdmissions == {i \in DOMAIN admitLog : admitLog[i] > now - window_ticks}

\* C2 as stated: the ledger never holds more than max_requests timestamps and
\* no more than max_requests calls are admitted within any trailing window.
C2_Original ==
    /\ Len(timestamps) <= max_requests
    /\ Cardinality(WindowAdmissions) <= max_requests

\* C2 amended: the ledger never holds more than max_requests timestamps, and
\* no more than max_requests of the calls admitted since the last reset_time
\* fall within any trailing window.
C2_LedgerBounded ==
    /\ Len(timestamps) <= max_requests
    /\ Cardinality(RecentAdmissions) <= max_requests

C2_Witness ==
    /\ Len(timestamps) = max_requests
    /\ Cardinality(RecentAdmissions) = max_requests
    /\ last.op = "check_and_record" /\ last.result = "rejected"
    /\ sinceReset = max_requests + 1

\* C3: on a full limiter whose oldest entry is t0, a check_and_record that
\* reads the clock at t >= t0 + window succeeds and one at t < t0 + window is
\* rejected.
C3_ExpiryBoundary ==
    (last.op = "check_and_record" /\ Len(last.before) = max_requests)
    => /\ last.at >= last.before[1] + window_ticks => last.result = "ok"
       /\ last.at < last.before[1] + window_ticks => last.result = "rejected"

\* the call is issued exactly window_seconds after the oldest admission
C3_Witness ==
    /\ last.op = "check_and_record"
    /\ Len(last.before) = max_requests
    /\ last.at = last.before[1] + window_ticks
    /\ last.result = "ok"

\* C4 as stated: the reported hint equals max(0, oldest + window - now) (the
\* hint is in tenths of a second, the wait in ticks).
C4_Original ==
    (last.op = "check_and_record" /\ last.result = "rejected")
    => /\ last.hint * TicksPerSecond =
            10 * Max(0, timestamps[1] + window_ticks - last.at)
       /\ 0 <= last.hint /\ last.hint <= 10 * window_seconds

\* C4 amended: the wait the call computes is max(0, oldest + window - now),
\* and the hint it reports is that wait rounded to the nearest tenth of a
\* second; both lie in [0, window_seconds].
C4_HintRounded ==
    (last.op = "check_and_record" /\ last.result = "rejected")
    => LET w == Max(0, timestamps[1] + window_ticks - last.at)
       IN  /\ last.wait = w
           /\ 0 <= w /\ w <= window_ticks
           /\ 2 * (last.hint * TicksPerSecond - 10 * w) <= TicksPerSecond
           /\ 2 * (10 * w - last.hint * TicksPerSecond) <= TicksPerSecond
           /\ 0 <= last.hint /\ last.hint <= 10 * window_seconds

\* a rejection whose wait is a fraction of a tenth of a second
C4_Witness ==
    /\ last.op = "check_and_record" /\ last.result = "rejected"
    /\ last.wait = 1
    /\ last.hint = 0

\* C5: a rejected check_and_record leaves the ledger as it was before the
\* call.
C5_RejectedLeavesLedger ==
    (last.op = "check_and_record" /\ last.result = "rejected")
    => timestamps = last.before

\* a rejection that follows an earlier rejection (a retry)
C5_Witness ==
    /\ last.op = "check_and_record" /\ last.result = "rejected"
    /\ last.before # <<>>
    /\ last.at > last.before[1]
    /\ now > last.at

\* C6: get_remaining_requests returns max_requests minus the number of
\* unexpired timestamps of the ledger, and the max(0, ...) never clips.
C6_RemainingExact ==
    last.op = "get_remaining_requests"
    => /\ last.value = max_requests - Cardinality(Unexpired(last.before, last.at))
       /\ last.value = last.raw
       /\ last.value >= 0

\* an observation that follows an expiry: the ledger was full, one entry has
\* expired
C6_Witness ==
    /\ last.op = "get_remaining_requests"
    /\ Len(last.before) = max_requests
    /\ last.value = 1

\* C7: the ledger is sorted in non-decreasing order in every state.
C7_LedgerSorted == IsSorted(timestamps)

\* two entries recorded at different times, by different threads' calls
C7_Witness ==
    /\ Len(timestamps) = max_requests
    /\ timestamps[1] < timestamps[max_requests]
    /\ \E t \in Threads : pc[t] = "check_and_record" /\ current_time[t] < now

\* C8: right after reset_time the ledger is empty; get_remaining_requests
\* with no admission since the reset returns max_requests; and a
\* check_and_record is rejected only after max_requests admissions since the
\* reset.
C8_ResetEmpties ==
    /\ last.op = "reset_time" => timestamps = <<>>
    /\ (last.op = "get_remaining_requests" /\ sinceReset = 0)
           => last.value = max_requests
    /\ (last.op = "check_and_record" /\ last.result = "rejected")
           => sinceReset >= max_requests

\* a second fill: a reset of a full ledger, then max_requests admissions
\* within the same window
C8_Witness ==
    /\ last.op = "check_and_record" /\ last.result = "ok"
    /\ sinceReset = max_requests
    /\ Cardinality(WindowAdmissions) = max_requests + 1

\* no marker of any vocabulary, open or close, and no think label, anywhere
\* in the text the chunks make
MarkerFree(chunks) ==
    /\ ~Search(Concat(chunks), OnlineOpenMarkers \cup OnlineCloseMarkers, TRUE)
    /\ ~Search(Concat(chunks), ThinkLabels, TRUE)

\* the chunks still on the queue
Queued == SelectSeq(chunk_queue, LAMBDA x : x # None)

\* C9: when the producer emits marker-free chunks and completes, the caller
\* is delivered exactly those chunks, in order: at every moment what was
\* delivered followed by what is on the queue is what the producer emitted,
\* when the stream has ended everything has been delivered, and the caller
\* is not left waiting on an empty queue once the worker has finished.
C9_DeliversInOrder ==
    (raised = NoError /\ MarkerFree(full_response))
    => /\ delivered \o Queued = full_response
       /\ cpc = "ended" => delivered = full_response
       /\ (wpc = "exited" /\ chunk_queue = <<>>) => cpc \in {"join", "ended"}

\* a turn of several chunks, one of them a fragment of a marker, has ended
C9_Witness ==
    /\ cpc = "ended"
    /\ raised = NoError
    /\ MarkerFree(full_response)
    /\ Len(full_response) >= 2
    /\ \E i \in DOMAIN delivered : delivered[i] = <<"<", "t", "h", "i">>
    /\ \E i \in DOMAIN delivered : delivered[i] = <<>>

C12_Original ==
    (cpc = "ended" /\ raised = NoError)
    => Concat(delivered) = filter_thinking_tokens(Concat(full_response))

\* two chunks whose split point falls inside the opening marker of a thinking
\* region: neither chunk holds an open marker, their concatenation does, and
\* the region is closed in the second
SplitsOpenMarker(chunks) ==
    /\ Len(chunks) = 2
    /\ ~Search(chunks[1], OnlineOpenMarkers, TRUE)
    /\ ~Search(chunks[2], OnlineOpenMarkers, TRUE)
    /\ Search(Concat(chunks), OnlineOpenMarkers, TRUE)
    /\ Search(chunks[2], OnlineCloseMarkers, TRUE)

\* C13 as stated: when the producer emits two chunks that split an opening
\* marker ("<thi" then "nk>X</think>Y") and completes, the text delivered by
\* the end of the stream is the fully filtered text ("Y"), with no fragment
\* of the marker.
C13_Original ==
    (cpc = "ended" /\ raised = NoError /\ SplitsOpenMarker(full_response))
    => /\ Concat(delivered) = filter_thinking_tokens(Concat(full_response))
       /\ ~Search(Concat(delivered), {<<"<", "t", "h", "i">>}, TRUE)

\* C14 as stated: the caller is never left waiting on the worker for ever; in
\* particular it is never in chunk_queue.get() on an empty queue when the
\* worker thread has ended and will put nothing more.
C14_Original ==
    ~(cpc = "get" /\ chunk_queue = <<>> /\ wpc \in {"dead", "exited"})

\* C15 as stated: the queue has a fixed capacity (a maxsize above 0), and the
\* items enqueued and not yet consumed never exceed it.
C15_Original ==
    chunk_queue # <<>> => (maxsize > 0 /\ Len(chunk_queue) <= maxsize)

\* C16: the calling thread is released whatever the worker does: a caller
\* suspended at a yield can stop at once, with no wait for the worker; a
\* caller that has met the sentinel leaves thread.join when the worker has
\* finished or when the timeout has elapsed; and the worker left behind is
\* never held up, on the queue, by the caller that is gone.
C16_CallerReleased ==
    /\ (cpc = "get" /\ delivered # <<>>) => ENABLED CallerStop
    /\ cpc = "join" => ENABLED CallerJoin
    /\ cpc \in {"closed", "ended"} => ~PutBlocks(chunk_queue)

\* the caller has stopped early, the worker is still running and chunks are
\* left on the queue
C16_Witness ==
    /\ cpc = "closed"
    /\ wpc = "run"
    /\ Queued # <<>>
    /\ Len(delivered) = 1

Unclassified == {"Exception"}

C19_Original ==
    (last.op = "get_stock_price" /\ last.result = "rejected")
    => /\ raised.kind = "RateLimitExceededError"
       /\ cpc = "ended"
             => delivered[Len(delivered)] = ErrorPrefix \o raised.msg

\* the text outside the marked regions, in its order
NonMarked(pieces) == Concat(SelectSeq(pieces, LAMBDA x : x \in PlainPieces))

\* a text made of plain pieces and whole marked regions only
WholeRegions(pieces) ==
    \A i \in DOMAIN pieces : pieces[i] \in PlainPieces \cup MarkedRegions

\* C20 as stated, read up to the whitespace at the two ends of the text
\* (which the function strips): filter_thinking_tokens returns the text
\* outside the marked regions, concatenated in its order, whatever the
\* vocabularies and the number of the regions; the empty string when the
\* text is marked regions only.
C20_Original ==
    (wpc = "returned" /\ WholeRegions(full_response))
    => /\ agent_response = Strip(NonMarked(full_response))
       /\ (\A i \in DOMAIN full_response : full_response[i] \in MarkedRegions)
             => agent_response = <<>>

\* C21 as stated: filter_thinking_tokens returns a text that holds no marker
\* unchanged, character for character.
C21_Original ==
    (wpc = "returned" /\ MarkerFree(full_response))
    => agent_response = Concat(full_response)

\* C21 amended: filter_thinking_tokens returns a text that holds no marker
\* with the whitespace at its two ends removed and nothing else changed; a
\* text that neither starts nor ends with whitespace is returned unchanged.
C21_UnchangedButStripped ==
    (wpc = "returned" /\ MarkerFree(full_response))
    => LET text == Concat(full_response)
       IN  /\ agent_response = Strip(text)
           /\ (text = <<>> \/ (text[1] \notin WhiteSpace
                                 /\ text[Len(text)] \notin WhiteSpace))
                 => agent_response = text

\* the function has returned on a text that holds no marker, that starts
\* with whitespace and holds a fragment of a marker and whitespace inside
C21_Witness ==
    /\ wpc = "returned"
    /\ MarkerFree(full_response)
    /\ full_response = <<<<" ">>, <<"<", "t", "h", "i">>, <<" ">>>>
       \/ full_response = <<<<" ">>, <<"A">>, <<"<", "t", "h", "i">>>>
    /\ agent_response # <<>>

\* C22 as stated: filter_thinking_tokens is idempotent: called on its own
\* result it returns that result, also when the removal of a region has
\* brought the fragments of a marker together.
C22_Original ==
    wpc = "refiltered"
    => agent_response = filter_thinking_tokens(Concat(full_response))

\* the threads whose lookup has reached the price service
AtService == {t \in Threads : pc[t] \in {"fetch", "fetched"}}

C24_Original ==
    cpc = "ended"
    => delivered = stream_agent_response_async(full_response, raised)

\* the content the producer emits inside its thinking regions
ThinkingContent == {<<"X">>}

\* the text with its thinking regions taken out, a region being what lies
\* from an open marker to the first matching close marker after it, the
\* markers read without regard to case
OutsideRegions(text) ==
    LET t1 == RemoveRegions(text, {ThinkOpen}, {ThinkClose}, TRUE)
        t2 == RemoveRegions(t1, {ThinkingOpen}, {ThinkingClose}, TRUE)
    IN  RemoveRegions(t2, {PipeOpen},
            {PipeCloseSlash, PipeClosePlain, EndCloseSlash, EndClosePlain}, TRUE)

\* C25 as stated: when all the thinking content the producer has emitted
\* lies inside thinking regions, no chunk delivered to the caller, online or
\* final, holds any of it.
C25_Original ==
    ~Search(OutsideRegions(Concat(full_response)), ThinkingContent, FALSE)
    => \A i \in DOMAIN delivered : ~Search(delivered[i], ThinkingContent, FALSE)

\* three chunks that make one thinking region and nothing else: an open
\* marker, the content, the matching close marker
OneRegion(chunks) ==
    /\ Len(chunks) = 3
    /\ chunks[2] \in ThinkingContent
    /\ OutsideRegions(Concat(chunks)) = <<>>

\* C26 as stated: the online scanner and the final scan know the same
\* regions: when the producer has emitted one thinking region and completed,
\* the online scanner has held the content back if and only if the final
\* scan has removed it from the text.
C26_Original ==
    (wpc \in {"sentinel", "closing", "exited"} /\ raised = NoError
         /\ OneRegion(full_response))
    => ((\A i \in DOMAIN (delivered \o Queued) :
             (delivered \o Queued)[i] \notin ThinkingContent)
        <=> ~Search(agent_response, ThinkingContent, FALSE))

\* C27: check_and_record and get_remaining_requests remove entries from the
\* oldest end of the ledger only, each of them aged window_seconds or more at
\* the call's current_time; every younger entry stays, in its place and
\* order (followed by the new entry when the call is admitted); the steps
\* that are not reset_time remove nothing else.
C27_EvictsOldestExpiredOnly ==
    /\ last.op \in {"check_and_record", "get_remaining_requests"}
          => LET before == last.before
                 cutoff == last.at - window_ticks
                 stayed == IF last.op = "check_and_record" /\ last.result = "ok"
                           THEN SubSeq(timestamps, 1, Len(timestamps) - 1)
                           ELSE timestamps
                 k == Len(before) - Len(stayed)
             IN  /\ k >= 0
                 /\ stayed = SubSeq(before, k + 1, Len(before))
                 /\ \A i \in 1 .. k : before[i] <= cutoff
                 /\ \A i \in DOMAIN before : before[i] > cutoff => i > k
                 /\ (last.op = "check_and_record" /\ last.result = "ok")
                       => timestamps[Len(timestamps)] = last.at
    /\ last.op \in {"enter", "tick"} => timestamps = last.before

\* a partial expiry: of the two entries of a full ledger the older has
\* expired and the younger has not, and the call has removed the older only
C27_Witness ==
    /\ last.op \in {"check_and_record", "get_remaining_requests"}
    /\ Len(last.before) = max_requests
    /\ last.before[1] <= last.at - window_ticks
    /\ last.before[2] > last.at - window_ticks
    /\ timestamps # <<>>
    /\ timestamps[1] = last.before[2]

SentinelsPut ==
    Len(SelectSeq(chunk_queue, LAMBDA x : x = None))
        + (IF cpc \in {"join", "ended", "raised"} THEN 1 ELSE 0)

\* C29 as stated: when the worker of a turn has ended, normally or by an
\* exception, it has enqueued the sentinel exactly once; the sentinel comes
\* after every chunk of the turn; and once the caller has consumed the
\* sentinel nothing is left for it to deliver.
C29_Original ==
    /\ wpc \in {"exited", "dead"} => SentinelsPut = 1
    /\ SentinelsPut <= 1
    /\ \A i \in DOMAIN chunk_queue :
           chunk_queue[i] = None => i = Len(chunk_queue)
    /\ cpc \in {"join", "ended", "raised"}
          => (chunk_queue = <<>> /\ wpc \in {"closing", "exited"})

====
